---- MODULE Spec2Model ----
(***************************************************************************)
(* Model of the sliding-window rate limiter (src/app/utils/rateLimit.ts)   *)
(* and of the staleness classifier                                         *)
(* (src/app/utils/openai/searchAnalyzer.ts).                               *)
(***************************************************************************)
EXTENDS Integers, Sequences, FiniteSets, TLC

(***************************************************************************)
(* Bounds of the model.                                                    *)
(***************************************************************************)
MaxTime == 3
MaxInterval == 2
MaxUnique == 2
MaxRequests == 2
MaxGranted == 3
MaxFragments == 3
MaxCallFragments == 2
MaxServed == 7
MaxProviderResults == 4
MaxYear == 2026

\* the year the test suite of the classifier fixes the clock to
FirstYear == 2025

\* identities; the empty string is the identity rejected by check
Tokens == {"a", "b"}
EmptyToken == ""

\* Math.min of an empty list, and the initial oldestTimestamp
Infinity == 1000000

VARIABLES
  interval,                \* options.interval
  uniqueTokenPerInterval,  \* options.uniqueTokenPerInterval
  tokenRequests,           \* Map<string, number[]>, in insertion order
  now,                     \* Date.now()
  nextSweep,               \* earliest time the setInterval callback fires next
  maxReq,                  \* the maxRequests every valid caller passes
  last,                    \* the operation that produced the current state
  granted,                 \* per identity: times of its successful checks still in the window
  sinceEvict,              \* granted, restarted whenever the identity is evicted
  scn,                     \* the run so far, while one identity alone has called within one interval
  rejected,                \* identities whose latest valid check was rejected
  pendingEvicted,          \* identities evicted and not yet checked again
  evictedEver,             \* identities evicted at least once
  text,                    \* the answer text handed to needsWebSearchInfo
  currentDate,             \* getCurrentDate(): year and month
  answer,                  \* what needsWebSearchInfo returned for text, "none" before the call
  otherAnswer,             \* what the latest call on another text returned
  again,                   \* what a second call on text returned, "none" before it
  againDate,               \* getCurrentDate() at the second call
  pc,                      \* position of the POST handler
  header,                  \* the x-forwarded-for header of the request, "" when absent
  body,                    \* what req.json() yields
  selectedModel,           \* the model validateInput selected
  currentModel,            \* webSearch.ts: let currentModel
  timer,                   \* the timeout of generateApiResponse is armed
  aborted,                 \* controller.signal.aborted
  timedOutAt,              \* position of the handler when the timeout fired
  initialResponse,         \* what generateInitialResponse returned
  searchResults,           \* number of results performWebSearch returned
  secondResponse,          \* what the second completion call did
  finalContent,            \* the text of the success response
  status,                  \* status of the response, 0 before it
  error,                   \* the error the handler caught
  calls,                   \* the external calls of the request, in order
  served,                  \* number of requests received
  frames,                  \* per caller: the position and the locals of its call of check
  running                  \* the caller whose call of check holds the thread, 0 when none

limiterVars == <<interval, uniqueTokenPerInterval, tokenRequests, now, nextSweep,
                 maxReq, last, granted, sinceEvict, scn, rejected, pendingEvicted,
                 evictedEver>>

classifierVars == <<text, currentDate, answer>>

callVars == <<otherAnswer, again, againDate>>

routeVars == <<pc, header, body, selectedModel, currentModel, timer, aborted,
               timedOutAt, initialResponse, searchResults, secondResponse,
               finalContent, status, error, calls, served>>

stepVars == <<frames, running>>

vars == <<limiterVars, classifierVars, callVars, routeVars, stepVars>>

(***************************************************************************)
(* Map<string, number[]> as a sequence of entries in insertion order.      *)
(***************************************************************************)
MapHas(m, token) == \E i \in 1..Len(m) : m[i].token = token

MapGet(m, token) ==
  IF MapHas(m, token)
  THEN m[CHOOSE i \in 1..Len(m) : m[i].token = token].ts
  ELSE <<>>

MapSet(m, token, ts) ==
  IF MapHas(m, token)
  THEN [i \in 1..Len(m) |->
          IF m[i].token = token THEN [token |-> token, ts |-> ts] ELSE m[i]]
  ELSE Append(m, [token |-> token, ts |-> ts])

MapDelete(m, token) == SelectSeq(m, LAMBDA e : e.token # token)

MapKeys(m) == {m[i].token : i \in 1..Len(m)}

(***************************************************************************)
(* Pure helpers of rateLimit.ts.                                           *)
(***************************************************************************)
\* variant: the window is one time unit too short
filterRecentRequests_ShortWindow(timestamps, t, ival) ==
  SelectSeq(timestamps, LAMBDA ts : t - ts < ival - 1)

filterRecentRequests(timestamps, t, ival) ==
  SelectSeq(timestamps, LAMBDA ts : t - ts < ival)

MathMin(timestamps) ==
  IF timestamps = <<>> THEN Infinity
  ELSE CHOOSE x \in {timestamps[i] : i \in 1..Len(timestamps)} :
         \A j \in 1..Len(timestamps) : x <= timestamps[j]

\* the loop of enforceUniqueTokenLimit: index of the entry it selects, 0 for null
RECURSIVE OldestFrom(_, _, _, _)
OldestFrom(m, i, oldestIdx, oldestTimestamp) ==
  IF i > Len(m) THEN oldestIdx
  ELSE IF MathMin(m[i].ts) < oldestTimestamp
       THEN OldestFrom(m, i + 1, i, MathMin(m[i].ts))
       ELSE OldestFrom(m, i + 1, oldestIdx, oldestTimestamp)

\* variant: selects the entry whose earliest timestamp is the largest
OldestToken_Newest(m) ==
  IF m = <<>> THEN EmptyToken
  ELSE m[CHOOSE i \in 1..Len(m) :
           \A j \in 1..Len(m) : MathMin(m[i].ts) >= MathMin(m[j].ts)].token

\* variant: among equal earliest timestamps the entry inserted last is selected
OldestToken_LastOnTie(m) ==
  IF m = <<>> THEN EmptyToken
  ELSE m[CHOOSE i \in 1..Len(m) :
           /\ \A j \in 1..Len(m) : MathMin(m[i].ts) <= MathMin(m[j].ts)
           /\ \A j \in (i + 1)..Len(m) : MathMin(m[i].ts) < MathMin(m[j].ts)].token

OldestToken(m) ==
  LET idx == OldestFrom(m, 1, 0, Infinity)
  IN IF idx = 0 THEN EmptyToken ELSE m[idx].token

\* variant: tolerates one identity more than the limit
enforceUniqueTokenLimit_OffByOne(m, uniqueTokenLimit) ==
  IF Len(m) <= uniqueTokenLimit + 1 THEN m
  ELSE IF OldestToken(m) # EmptyToken THEN MapDelete(m, OldestToken(m))
       ELSE m

enforceUniqueTokenLimit(m, uniqueTokenLimit) ==
  IF Len(m) <= uniqueTokenLimit THEN m
  ELSE IF OldestToken(m) # EmptyToken THEN MapDelete(m, OldestToken(m))
       ELSE m

\* variant: an identity whose timestamps have all expired stays tracked
cleanupExpiredTokens_KeepsEmptied(m, t, ival) ==
  [i \in 1..Len(m) |->
     [token |-> m[i].token, ts |-> filterRecentRequests(m[i].ts, t, ival)]]

cleanupExpiredTokens(m, t, ival) ==
  SelectSeq(
    [i \in 1..Len(m) |->
       [token |-> m[i].token, ts |-> filterRecentRequests(m[i].ts, t, ival)]],
    LAMBDA e : e.ts # <<>>)

\* variant: the comparison with maxRequests is strict
CheckResult_StrictGreater(m, maxRequests, token, t, ival) ==
  IF maxRequests <= 0 \/ token = EmptyToken THEN "InvalidParameters"
  ELSE IF Len(filterRecentRequests(MapGet(m, token), t, ival)) > maxRequests
       THEN "RateLimitExceeded"
       ELSE "ok"

\* variant: counts every recorded timestamp, expired ones included
CheckResult_Unfiltered(m, maxRequests, token, t, ival) ==
  IF maxRequests <= 0 \/ token = EmptyToken THEN "InvalidParameters"
  ELSE IF Len(MapGet(m, token)) >= maxRequests
       THEN "RateLimitExceeded"
       ELSE "ok"

\* variant: no parameter validation
CheckResult_NoValidation(m, maxRequests, token, t, ival) ==
  IF Len(filterRecentRequests(MapGet(m, token), t, ival)) >= maxRequests
  THEN "RateLimitExceeded"
  ELSE "ok"

\* outcome of check(maxRequests, token) on ledger m at time t
CheckResult(m, maxRequests, token, t, ival) ==
  IF maxRequests <= 0 \/ token = EmptyToken THEN "InvalidParameters"
  ELSE IF Len(filterRecentRequests(MapGet(m, token), t, ival)) >= maxRequests
       THEN "RateLimitExceeded"
       ELSE "ok"

\* variant: the new timestamp is appended to every identity's list
Inserted_AllEntries(m, token, t, ival) ==
  LET ins == MapSet(m, token,
                    Append(filterRecentRequests(MapGet(m, token), t, ival), t))
  IN [i \in 1..Len(ins) |->
        IF ins[i].token = token THEN ins[i]
        ELSE [token |-> ins[i].token, ts |-> Append(ins[i].ts, t)]]

\* variant: the new timestamp is put in front of the list
Inserted_NewestFirst(m, token, t, ival) ==
  MapSet(m, token, <<t>> \o filterRecentRequests(MapGet(m, token), t, ival))

\* variant: the new list holds the new timestamp alone
Inserted_DropsHistory(m, token, t, ival) == MapSet(m, token, <<t>>)

\* the ledger after lines 141-143 of a successful check
Inserted(m, token, t, ival) ==
  MapSet(m, token, Append(filterRecentRequests(MapGet(m, token), t, ival), t))

\* variant: a rejected attempt is recorded too
CheckLedger_RecordsRejected(m, maxRequests, token, t, ival, uniqueTokenLimit) ==
  IF CheckResult(m, maxRequests, token, t, ival) = "InvalidParameters" THEN m
  ELSE enforceUniqueTokenLimit(Inserted(m, token, t, ival), uniqueTokenLimit)

\* variant: an admitted call is not recorded
CheckLedger_NothingRecorded(m, maxRequests, token, t, ival, uniqueTokenLimit) == m

\* the ledger after check(maxRequests, token) returns or throws
CheckLedger(m, maxRequests, token, t, ival, uniqueTokenLimit) ==
  IF CheckResult(m, maxRequests, token, t, ival) = "ok"
  THEN enforceUniqueTokenLimit(Inserted(m, token, t, ival), uniqueTokenLimit)
  ELSE m

\* the identity a successful check evicts, EmptyToken when none
Evicted(m, token, t, ival, uniqueTokenLimit) ==
  LET ins == Inserted(m, token, t, ival)
  IN IF Len(ins) > uniqueTokenLimit THEN OldestToken(ins) ELSE EmptyToken

(***************************************************************************)
(* State machine of one limiter instance.                                  *)
(***************************************************************************)
NoOp == [op |-> "init", token |-> EmptyToken, maxRequests |-> 0,
         result |-> "none", evicted |-> EmptyToken, wasPending |-> FALSE,
         wasRejected |-> FALSE, stale |-> FALSE]

\* the times of a log that lie in the window of length ival ending at t
InWindow(times, t, ival) == SelectSeq(times, LAMBDA g : g > t - ival)

\* every timestamp of the list is at least ival old at time t
AllExpired(timestamps, t, ival) ==
  \A i \in 1..Len(timestamps) : t - timestamps[i] >= ival

\* scn.n valid checks were made, all by scn.token, the first at time scn.first
Fresh == [token |-> EmptyToken, first |-> 0, n |-> 0]
Over == [token |-> EmptyToken, first |-> 0, n |-> -1]

\* no error caught
NoError == [name |-> "none", status |-> 0, message |-> "none"]

\* no request body read yet
NoBody == [kind |-> "none", model |-> "none"]

\* performWebSearch not called yet
NoSearch == [provider |-> "none", found |-> 0, threw |-> FALSE, count |-> 0]

\* the second completion call not made yet
NoSecond == [outcome |-> "none", text |-> <<>>]

\* no request is being handled
HandlerIdle ==
  /\ pc = "idle"
  /\ header = ""
  /\ body = NoBody
  /\ selectedModel = "none"
  /\ currentModel = "null"
  /\ timer = FALSE
  /\ aborted = FALSE
  /\ timedOutAt = "none"
  /\ initialResponse = <<>>
  /\ searchResults = NoSearch
  /\ secondResponse = NoSecond
  /\ finalContent = <<>>
  /\ status = 0
  /\ error = NoError
  /\ calls = <<>>
  /\ served = 0

\* the callers of check whose calls are followed statement by statement
Callers == {1, 2}

\* no call of check is on the stack
IdleFrame == [at |-> "idle", token |-> EmptyToken, t |-> 0, recentRequests |-> <<>>,
              seen |-> <<>>]

NoCheckRunning ==
  /\ frames = [r \in Callers |-> IdleFrame]
  /\ running = 0

\* the classifier has not been called a second time
NoSecondCall ==
  /\ otherAnswer = "none"
  /\ again = "none"
  /\ againDate = currentDate

Init ==
  /\ interval \in 1..MaxInterval
  /\ uniqueTokenPerInterval \in 0..MaxUnique
  /\ maxReq \in 1..MaxRequests
  /\ tokenRequests = <<>>
  /\ now = 0
  /\ nextSweep = interval
  /\ last = NoOp
  /\ granted = [k \in Tokens |-> <<>>]
  /\ sinceEvict = [k \in Tokens |-> <<>>]
  /\ scn = Fresh
  /\ rejected = {}
  /\ pendingEvicted = {}
  /\ evictedEver = {}
  /\ text = <<>>
  /\ currentDate = [year |-> FirstYear, month |-> 1]
  /\ answer = "none"
  /\ NoSecondCall
  /\ HandlerIdle
  /\ NoCheckRunning

\* the clock advances
Tick ==
  /\ now < MaxTime
  /\ now' = now + 1
  /\ last' = [NoOp EXCEPT !.op = "tick"]
  /\ UNCHANGED <<interval, uniqueTokenPerInterval, tokenRequests, nextSweep,
                 maxReq, granted, sinceEvict, scn, rejected, pendingEvicted, evictedEver,
                 classifierVars, callVars, routeVars, stepVars>>

\* the setInterval callback (rateLimit.ts:118-120)
Sweep ==
  /\ running = 0
  /\ now >= nextSweep
  /\ tokenRequests' = cleanupExpiredTokens(tokenRequests, now, interval)
  /\ nextSweep' = now + interval
  /\ last' = [NoOp EXCEPT !.op = "sweep"]
  /\ UNCHANGED <<interval, uniqueTokenPerInterval, now, maxReq, granted,
                 sinceEvict, scn, rejected, pendingEvicted, evictedEver, classifierVars,
                 callVars, routeVars, stepVars>>

\* check(maxRequests, token) with valid parameters (rateLimit.ts:123-147)
Check(token) ==
  LET res == CheckResult(tokenRequests, maxReq, token, now, interval)
      ev == IF res = "ok"
            THEN Evicted(tokenRequests, token, now, interval, uniqueTokenPerInterval)
            ELSE EmptyToken
  IN
  /\ Len(InWindow(granted[token], now, interval)) < MaxGranted
  /\ tokenRequests' = CheckLedger(tokenRequests, maxReq, token, now, interval,
                                  uniqueTokenPerInterval)
  /\ last' = [op |-> "check", token |-> token, maxRequests |-> maxReq,
              result |-> res, evicted |-> ev,
              wasPending |-> token \in pendingEvicted,
              wasRejected |-> token \in rejected,
              stale |-> /\ MapGet(tokenRequests, token) # <<>>
                        /\ AllExpired(MapGet(tokenRequests, token), now, interval)]
  /\ granted' = [granted EXCEPT ![token] =
                   IF res = "ok"
                   THEN Append(InWindow(@, now, interval), now)
                   ELSE @]
  /\ sinceEvict' = [k \in Tokens |->
                      IF k = ev THEN <<>>
                      ELSE IF k = token /\ res = "ok"
                           THEN Append(InWindow(sinceEvict[k], now, interval), now)
                           ELSE sinceEvict[k]]
  /\ rejected' = IF res = "ok" THEN rejected \ {token} ELSE rejected \cup {token}
  /\ scn' = IF scn = Fresh THEN [token |-> token, first |-> now, n |-> 1]
            ELSE IF /\ scn.token = token
                    /\ now - scn.first < interval
                    /\ scn.n <= maxReq
                 THEN [scn EXCEPT !.n = @ + 1]
                 ELSE Over
  /\ pendingEvicted' = IF ev # EmptyToken
                       THEN (pendingEvicted \ {token}) \cup {ev}
                       ELSE pendingEvicted \ {token}
  /\ evictedEver' = IF ev # EmptyToken THEN evictedEver \cup {ev} ELSE evictedEver
  /\ UNCHANGED <<interval, uniqueTokenPerInterval, now, nextSweep, maxReq,
                 classifierVars, callVars, routeVars, stepVars>>

\* check with maxRequests <= 0 or an empty identity (rateLimit.ts:125-127)
CheckInvalid(maxRequests, token) ==
  /\ maxRequests <= 0 \/ token = EmptyToken
  /\ tokenRequests' = CheckLedger(tokenRequests, maxRequests, token, now, interval,
                                  uniqueTokenPerInterval)
  /\ last' = [NoOp EXCEPT !.op = "check", !.token = token,
                          !.maxRequests = maxRequests,
                          !.result = CheckResult(tokenRequests, maxRequests, token,
                                                 now, interval)]
  /\ UNCHANGED <<interval, uniqueTokenPerInterval, now, nextSweep, maxReq,
                 granted, sinceEvict, scn, rejected, pendingEvicted, evictedEver,
                 classifierVars, callVars, routeVars, stepVars>>

CheckAny == \E token \in Tokens : Check(token)

CheckBad ==
  \E maxRequests \in {-1, 0, maxReq}, token \in Tokens \cup {EmptyToken} :
    CheckInvalid(maxRequests, token)

Next == Tick \/ Sweep \/ CheckAny \/ CheckBad

Spec == Init /\ [][Next]_vars

(***************************************************************************)
(* Properties of the rate limiter.                                         *)
(***************************************************************************)
ValidCheck(l) == l.op = "check" /\ l.result # "InvalidParameters"

\* the state right after the scn.n-th valid check of a run in which one
\* identity alone has called a fresh limiter, all calls within one interval
SingleIdentityRun == ValidCheck(last) /\ scn.n >= 1

SingleIdentityOutcome ==
  /\ last.token = scn.token
  /\ IF scn.n <= maxReq THEN last.result = "ok"
     ELSE last.result = "RateLimitExceeded"

\* C1 as stated: on a fresh limiter, with one identity calling within one
\* interval, calls 1..N succeed and call N+1 fails with RateLimitExceeded,
\* whatever the limiter's options are.
C1_AnyCapacity == SingleIdentityRun => SingleIdentityOutcome

\* C1 amended: on a fresh limiter constructed with uniqueTokenPerInterval >= 1,
\* with one identity calling within one interval, calls 1..N succeed and
\* call N+1 fails with RateLimitExceeded.
C1_FirstNSucceed ==
  (SingleIdentityRun /\ uniqueTokenPerInterval >= 1) => SingleIdentityOutcome

C1_Witness ==
  /\ SingleIdentityRun
  /\ uniqueTokenPerInterval >= 1
  /\ maxReq = MaxRequests
  /\ scn.n = maxReq + 1
  /\ last.result = "RateLimitExceeded"

\* C2 as stated: for every identity the number of successful checks inside
\* any rolling window of length interval never exceeds maxRequests.
C2_WindowBound == \A k \in Tokens : Len(granted[k]) <= maxReq

\* C2 amended: for every identity the number of successful checks made since
\* its most recent eviction and lying inside any rolling window of length
\* interval never exceeds maxRequests.
C2_WindowBoundSinceEviction == \A k \in Tokens : Len(sinceEvict[k]) <= maxReq

C2_Witness ==
  /\ last.op = "check"
  /\ last.result = "RateLimitExceeded"
  /\ Len(sinceEvict[last.token]) = maxReq
  /\ maxReq = MaxRequests
  /\ \E k \in Tokens \ {last.token} : sinceEvict[k] # <<>>

\* C3: a valid check by an identity whose latest check was rejected, made
\* when every timestamp recorded for it is at least interval old, succeeds,
\* whether the sweep has removed those timestamps or not.
C3_ResetAfterInterval ==
  [][(/\ ValidCheck(last')
      /\ last'.token \in rejected
      /\ AllExpired(MapGet(tokenRequests, last'.token), now, interval))
     => last'.result = "ok"]_vars

C3_Witness ==
  /\ ValidCheck(last)
  /\ last.wasRejected
  /\ last.stale
  /\ last.result = "ok"

\* an identity other than the caller keeps its list and its next outcome
Untouched(b) ==
  /\ MapGet(tokenRequests', b) = MapGet(tokenRequests, b)
  /\ CheckResult(tokenRequests', maxReq, b, now, interval)
       = CheckResult(tokenRequests, maxReq, b, now, interval)

\* C4 as stated: a check by one identity never changes the recorded
\* timestamps of another identity nor the outcome of that identity's checks.
C4_NeverInterfere ==
  [][ValidCheck(last') => \A b \in Tokens \ {last'.token} : Untouched(b)]_vars

\* C4 amended: a check by one identity changes the recorded timestamps or
\* the outcome of the checks of another identity only when it evicts that
\* identity because the ledger exceeds uniqueTokenPerInterval.
C4_InterfereOnlyByEviction ==
  [][ValidCheck(last') =>
       \A b \in Tokens \ {last'.token, last'.evicted} : Untouched(b)]_vars

C4_Witness ==
  /\ last.op = "check"
  /\ last.result = "RateLimitExceeded"
  /\ \E b \in Tokens \ {last.token} :
       /\ MapGet(tokenRequests, b) # <<>>
       /\ CheckResult(tokenRequests, maxReq, b, now, interval) = "ok"

C6_TrackedBound == Len(tokenRequests) <= uniqueTokenPerInterval

C6_Witness ==
  /\ last.op = "check"
  /\ last.evicted # EmptyToken
  /\ uniqueTokenPerInterval >= 1
  /\ Len(tokenRequests) = uniqueTokenPerInterval

\* C7: a check with maxRequests <= 0 or an empty identity fails with the
\* invalid-parameters error and leaves the ledger unchanged.
C7_InvalidParameters ==
  [][(last'.op = "check" /\ (last'.maxRequests <= 0 \/ last'.token = EmptyToken))
     => /\ last'.result = "InvalidParameters"
        /\ tokenRequests' = tokenRequests]_vars

C7_Witness ==
  /\ last.op = "check"
  /\ last.maxRequests <= 0
  /\ last.token \in Tokens
  /\ last.result = "InvalidParameters"
  /\ CheckResult(tokenRequests, maxReq, last.token, now, interval)
       = "RateLimitExceeded"

\* C8: a check rejected with RateLimitExceeded leaves every ledger entry,
\* the caller's included, exactly as it was.
C8_RejectedNotRecorded ==
  [][(last'.op = "check" /\ last'.result = "RateLimitExceeded")
     => tokenRequests' = tokenRequests]_vars

C8_Witness ==
  /\ last.op = "check"
  /\ last.result = "RateLimitExceeded"
  /\ Len(MapGet(tokenRequests, last.token)) = maxReq
  /\ maxReq = MaxRequests

(***************************************************************************)
(* The staleness classifier (searchAnalyzer.ts).                           *)
(*                                                                         *)
(* An answer text is a sequence of lexemes.  A lexeme is a piece of        *)
(* Japanese text the regular expressions of the classifier distinguish:    *)
(* "nen" is a four-digit year followed by the year marker, "gatsu" a month *)
(* number followed by the month marker, every other lexeme is the phrase   *)
(* its romanised name spells.  A regular expression is modelled by the     *)
(* lexeme sequences whose concatenation it matches.                        *)
(***************************************************************************)
TIME_THRESHOLDS ==
  [OLD_YEAR_THRESHOLD |-> 2, MODERATE_MATCH_THRESHOLD |-> 2,
   SHORT_ANSWER_THRESHOLD |-> 100]

Lex(w) == [w |-> w, n |-> 0]
Nen(y) == [w |-> "nen", n |-> y]
Gatsu(m) == [w |-> "gatsu", n |-> m]

\* number of characters of each phrase
WordLen ==
  [ watashi_no_chishiki_wa |-> 5, watashi_ga_motteiru_joho_wa |-> 10,
    watashi_no_gakushu_data_wa |-> 8, saishin_joho_wa |-> 5,
    yori_shosai_na_joho_wa |-> 8, made |-> 2, seigen |-> 2, furui |-> 2,
    kakunin |-> 2, no_joho |-> 3, izen |-> 2, iko |-> 2, jiten |-> 2,
    genzai |-> 2, desu |-> 3, saishin_no_data_ga_arimasen |-> 12,
    genjiten_deno_seikaku_na_joho_wa_haaku |-> 13,
    shosai_na_joho_wo_omochi_shiteimasu |-> 14,
    saishin_no_data_ni_yoruto |-> 10, genzai_no_joho_dewa |-> 7,
    saishin_no_kenkyu_dewa |-> 7, saikin_no_chosa_ni_yoreba |-> 9,
    watashi_no_chishiki_ni_yoreba |-> 8, kuwashiku_setsumei_shimasu |-> 8,
    gutaiteki_na_rei_wo_ageruto |-> 10, saishin_no_jokyo |-> 5,
    saikin_no_keiko |-> 5, genzai_no_shijo |-> 5,
    seikaku_na_joho_wo_kakunin_suru_niwa |-> 12,
    koshiki_site_de_kakunin |-> 8, wakarimasen |-> 6, fumei |-> 2,
    kakunin_dekimasen |-> 7, haaku_shiteimasen |-> 8,
    ni_hatsubai_sareta |-> 6, ni_setsuritsu_saremashita |-> 8,
    nagai_setsumei |-> 108, kotae_wa_42 |-> 8 ]

CharLen(l) ==
  IF l.w = "nen" THEN 5
  ELSE IF l.w = "gatsu" THEN (IF l.n >= 10 THEN 3 ELSE 2)
  ELSE WordLen[l.w]

\* text.length
RECURSIVE TextLength(_)
TextLength(t) == IF t = <<>> THEN 0 ELSE CharLen(Head(t)) + TextLength(Tail(t))

\* the text a sequence of fragments spells
RECURSIVE Flatten(_)
Flatten(fs) == IF fs = <<>> THEN <<>> ELSE Head(fs) \o Flatten(Tail(fs))

Contains(t, words) == \E i \in 1..Len(t) : t[i].w \in words

\* the phrases matching /saishin|saikin|genzai|ima no/ (searchAnalyzer.ts:137)
RecentTerms ==
  {"genzai", "genzai_no_joho_dewa", "genzai_no_shijo",
   "saikin_no_chosa_ni_yoreba", "saikin_no_keiko", "saishin_joho_wa",
   "saishin_no_data_ga_arimasen", "saishin_no_data_ni_yoruto",
   "saishin_no_jokyo", "saishin_no_kenkyu_dewa"}

\* the phrases matching /wakarimasen|fumei|kakunin dekimasen|haaku shiteimasen/
UncertainTerms == {"fumei", "haaku_shiteimasen", "kakunin_dekimasen", "wakarimasen"}

\* the phrases matching historicalFactPattern: a verb of the list directly
\* followed by sareta, shita or reta ("setsuritsu saremashita" does not match)
HistoricalFactTerms == {"ni_hatsubai_sareta"}

\* the phrases that begin with genzai or jiten
TimeContextTerms == {"jiten", "genzai", "genzai_no_joho_dewa", "genzai_no_shijo"}

\* for each closing alternative of a gap pattern: the phrases holding it and
\* the number of characters before it in the phrase
TailMadeKoshinSeigen == [made |-> 0, seigen |-> 0]
TailMadeFuruiKagirarete == [made |-> 0, furui |-> 0]
TailMadeShuryoSeigen == [made |-> 0, seigen |-> 0]
TailKakuninSansho ==
  [kakunin |-> 0, seikaku_na_joho_wo_kakunin_suru_niwa |-> 6,
   koshiki_site_de_kakunin |-> 6, kakunin_dekimasen |-> 0]
TailKensakuKakunin ==
  [kakunin |-> 0, seikaku_na_joho_wo_kakunin_suru_niwa |-> 6,
   koshiki_site_de_kakunin |-> 6, kakunin_dekimasen |-> 0]

\* head(.{0,maxGap})tail
GapMatch(t, heads, tailAt, maxGap) ==
  \E i \in 1..Len(t), j \in 1..Len(t) :
    /\ i < j
    /\ t[i].w \in heads
    /\ t[j].w \in DOMAIN tailAt
    /\ TextLength(SubSeq(t, i + 1, j - 1)) + tailAt[t[j].w] <= maxGap

\* the year y directly followed by one of the phrases
YearFollowedBy(t, y, words) ==
  \E i \in 1..(Len(t) - 1) : t[i] = Nen(y) /\ t[i + 1].w \in words

\* /y nen (izen|made) no (joho|data)/
YearLimitOfInformation(t, y) ==
  \E i \in 1..(Len(t) - 2) :
    /\ t[i] = Nen(y)
    /\ t[i + 1].w \in {"izen", "made"}
    /\ t[i + 2].w = "no_joho"

\* getStrongPatterns(currentYear)[k - 1].test(text)
StrongPatternTest(k, t, currentYear) ==
  CASE k = 1 -> GapMatch(t, {"watashi_no_chishiki_wa"}, TailMadeKoshinSeigen, 10)
    [] k = 2 -> GapMatch(t, {"watashi_ga_motteiru_joho_wa"},
                         TailMadeFuruiKagirarete, 10)
    [] k = 3 -> \E i \in 1..Len(t), j \in 1..(Len(t) - 1) :
                  /\ i < j
                  /\ t[i].w = "nen"
                  /\ t[j].w = "made"
                  /\ t[j + 1].w = "no_joho"
    [] k = 4 -> Contains(t, {"saishin_no_data_ga_arimasen"})
    [] k = 5 -> Contains(t, {"genjiten_deno_seikaku_na_joho_wa_haaku"})
    [] k = 6 -> GapMatch(t, {"watashi_no_gakushu_data_wa"}, TailMadeShuryoSeigen, 15)
    [] k = 7 -> YearLimitOfInformation(t, currentYear - 1)
    [] k = 8 -> YearLimitOfInformation(t, currentYear - 2)

getStrongPatterns == 1..8

\* getModeratePatterns(currentYear)[k - 1].test(text)
ModeratePatternTest(k, t, currentYear) ==
  CASE k = 1 -> Contains(t, {"saishin_no_jokyo"})
    [] k = 2 -> YearFollowedBy(t, currentYear, {"no_joho"})
    [] k = 3 -> YearFollowedBy(t, currentYear - 1, {"iko"})
    [] k = 4 -> Contains(t, {"saikin_no_keiko"})
    [] k = 5 -> Contains(t, {"genzai_no_shijo"})
    [] k = 6 -> Contains(t, {"seikaku_na_joho_wo_kakunin_suru_niwa"})
    [] k = 7 -> Contains(t, {"koshiki_site_de_kakunin"})
    [] k = 8 -> GapMatch(t, {"saishin_joho_wa"}, TailKakuninSansho, 20)
    [] k = 9 -> GapMatch(t, {"yori_shosai_na_joho_wa"}, TailKensakuKakunin, 20)

getModeratePatterns == 1..9

\* the phrases the eight exclusion patterns match
getExclusionPatterns ==
  {"shosai_na_joho_wo_omochi_shiteimasu", "saishin_no_data_ni_yoruto",
   "genzai_no_joho_dewa", "saishin_no_kenkyu_dewa", "saikin_no_chosa_ni_yoreba",
   "watashi_no_chishiki_ni_yoreba", "kuwashiku_setsumei_shimasu",
   "gutaiteki_na_rei_wo_ageruto"}

\* variant: the year pattern is one object shared by all calls, and an
\* earlier call leaves its lastIndex behind the first year of the next text
extractYearsFromText_SharedRegex(t) ==
  LET yearMatch == SelectSeq(t, LAMBDA l : l.w = "nen")
      years == [i \in 1..Len(yearMatch) |-> yearMatch[i].n]
  IN IF otherAnswer # "none" /\ years # <<>> THEN Tail(years) ELSE years

extractYearsFromText(t) ==
  LET yearMatch == SelectSeq(t, LAMBDA l : l.w = "nen")
  IN [i \in 1..Len(yearMatch) |-> yearMatch[i].n]

\* variant: a year exactly OLD_YEAR_THRESHOLD years back counts as old
analyzeYearBasedSearchNeed_OldInclusive(years, t, currentYear) ==
  IF years = <<>> THEN "null"
  ELSE LET allYearsOld == \A i \in 1..Len(years) :
                            years[i] <= currentYear - TIME_THRESHOLDS.OLD_YEAR_THRESHOLD
           hasFutureYears == \E i \in 1..Len(years) : years[i] > currentYear
           hasRecentTerms == Contains(t, RecentTerms)
       IN IF allYearsOld /\ ~hasFutureYears /\ ~hasRecentTerms THEN "false"
          ELSE IF hasFutureYears THEN "true"
          ELSE "null"

\* variant: every mentioned year has to lie in the future
analyzeYearBasedSearchNeed_EveryFuture(years, t, currentYear) ==
  IF years = <<>> THEN "null"
  ELSE LET allYearsOld == \A i \in 1..Len(years) :
                            years[i] < currentYear - TIME_THRESHOLDS.OLD_YEAR_THRESHOLD
           hasFutureYears == \A i \in 1..Len(years) : years[i] > currentYear
           hasRecentTerms == Contains(t, RecentTerms)
       IN IF allYearsOld /\ ~hasFutureYears /\ ~hasRecentTerms THEN "false"
          ELSE IF hasFutureYears THEN "true"
          ELSE "null"

analyzeYearBasedSearchNeed(years, t, currentYear) ==
  IF years = <<>> THEN "null"
  ELSE LET allYearsOld == \A i \in 1..Len(years) :
                            years[i] < currentYear - TIME_THRESHOLDS.OLD_YEAR_THRESHOLD
           hasFutureYears == \E i \in 1..Len(years) : years[i] > currentYear
           hasRecentTerms == Contains(t, RecentTerms)
       IN IF allYearsOld /\ ~hasFutureYears /\ ~hasRecentTerms THEN "false"
          ELSE IF hasFutureYears THEN "true"
          ELSE "null"

\* String.match without the g flag: the leftmost match
Leftmost(S) == CHOOSE i \in S : \A j \in S : i <= j

\* variant: a dated mention triggers a search whatever verbs the text holds
analyzeTimeContext_NoHistoricalFact(t, date) ==
  LET timeContextMatch ==
        {i \in 1..(Len(t) - 1) : t[i].w = "nen" /\ t[i + 1].w \in TimeContextTerms}
      monthYearMatch ==
        {i \in 1..(Len(t) - 1) : t[i].w = "nen" /\ t[i + 1].w = "gatsu"}
      mentionedYear == t[Leftmost(monthYearMatch)].n
      mentionedMonth == t[Leftmost(monthYearMatch) + 1].n
      isOldDate == \/ mentionedYear < date.year - 1
                   \/ (mentionedYear = date.year - 1 /\ mentionedMonth < date.month)
  IN IF timeContextMatch # {} /\ t[Leftmost(timeContextMatch)].n < date.year - 1
     THEN "true"
     ELSE IF monthYearMatch # {} /\ isOldDate
          THEN "true"
          ELSE "null"

analyzeTimeContext(t, date) ==
  LET timeContextMatch ==
        {i \in 1..(Len(t) - 1) : t[i].w = "nen" /\ t[i + 1].w \in TimeContextTerms}
      monthYearMatch ==
        {i \in 1..(Len(t) - 1) : t[i].w = "nen" /\ t[i + 1].w = "gatsu"}
      mentionedYear == t[Leftmost(monthYearMatch)].n
      mentionedMonth == t[Leftmost(monthYearMatch) + 1].n
      isOldDate == \/ mentionedYear < date.year - 1
                   \/ (mentionedYear = date.year - 1 /\ mentionedMonth < date.month)
  IN IF timeContextMatch # {} /\ t[Leftmost(timeContextMatch)].n < date.year - 1
     THEN "true"
     ELSE IF /\ monthYearMatch # {}
             /\ isOldDate
             /\ ~Contains(t, HistoricalFactTerms)
          THEN "true"
          ELSE "null"

\* variant: the strong patterns are consulted before the year decision
needsWebSearchInfo_StrongFirst(t, date) ==
  LET yearBasedDecision ==
        analyzeYearBasedSearchNeed(extractYearsFromText(t), t, date.year)
      moderateMatchCount ==
        Cardinality({k \in getModeratePatterns : ModeratePatternTest(k, t, date.year)})
  IN IF \E k \in getStrongPatterns : StrongPatternTest(k, t, date.year) THEN TRUE
     ELSE IF yearBasedDecision # "null" THEN yearBasedDecision = "true"
     ELSE IF Contains(t, getExclusionPatterns) THEN FALSE
     ELSE IF moderateMatchCount >= TIME_THRESHOLDS.MODERATE_MATCH_THRESHOLD THEN TRUE
     ELSE IF /\ TextLength(t) < TIME_THRESHOLDS.SHORT_ANSWER_THRESHOLD
             /\ Contains(t, UncertainTerms)
          THEN TRUE
     ELSE IF analyzeTimeContext(t, date) # "null"
          THEN analyzeTimeContext(t, date) = "true"
     ELSE FALSE

\* variant: a text on which no rule is decisive is classified true
needsWebSearchInfo_DefaultTrue(t, date) ==
  LET yearBasedDecision ==
        analyzeYearBasedSearchNeed(extractYearsFromText(t), t, date.year)
      moderateMatchCount ==
        Cardinality({k \in getModeratePatterns : ModeratePatternTest(k, t, date.year)})
  IN IF yearBasedDecision # "null" THEN yearBasedDecision = "true"
     ELSE IF \E k \in getStrongPatterns : StrongPatternTest(k, t, date.year) THEN TRUE
     ELSE IF Contains(t, getExclusionPatterns) THEN FALSE
     ELSE IF moderateMatchCount >= TIME_THRESHOLDS.MODERATE_MATCH_THRESHOLD THEN TRUE
     ELSE IF /\ TextLength(t) < TIME_THRESHOLDS.SHORT_ANSWER_THRESHOLD
             /\ Contains(t, UncertainTerms)
          THEN TRUE
     ELSE IF analyzeTimeContext(t, date) # "null"
          THEN analyzeTimeContext(t, date) = "true"
     ELSE TRUE

\* variant: the exclusion patterns are consulted before the strong patterns
needsWebSearchInfo_ExclusionFirst(t, date) ==
  LET yearBasedDecision ==
        analyzeYearBasedSearchNeed(extractYearsFromText(t), t, date.year)
      moderateMatchCount ==
        Cardinality({k \in getModeratePatterns : ModeratePatternTest(k, t, date.year)})
  IN IF yearBasedDecision # "null" THEN yearBasedDecision = "true"
     ELSE IF Contains(t, getExclusionPatterns) THEN FALSE
     ELSE IF \E k \in getStrongPatterns : StrongPatternTest(k, t, date.year) THEN TRUE
     ELSE IF moderateMatchCount >= TIME_THRESHOLDS.MODERATE_MATCH_THRESHOLD THEN TRUE
     ELSE IF /\ TextLength(t) < TIME_THRESHOLDS.SHORT_ANSWER_THRESHOLD
             /\ Contains(t, UncertainTerms)
          THEN TRUE
     ELSE IF analyzeTimeContext(t, date) # "null"
          THEN analyzeTimeContext(t, date) = "true"
     ELSE FALSE

\* variant: the moderate patterns have to match more often than the threshold
needsWebSearchInfo_ModerateStrict(t, date) ==
  LET yearBasedDecision ==
        analyzeYearBasedSearchNeed(extractYearsFromText(t), t, date.year)
      moderateMatchCount ==
        Cardinality({k \in getModeratePatterns : ModeratePatternTest(k, t, date.year)})
  IN IF yearBasedDecision # "null" THEN yearBasedDecision = "true"
     ELSE IF \E k \in getStrongPatterns : StrongPatternTest(k, t, date.year) THEN TRUE
     ELSE IF Contains(t, getExclusionPatterns) THEN FALSE
     ELSE IF moderateMatchCount > TIME_THRESHOLDS.MODERATE_MATCH_THRESHOLD THEN TRUE
     ELSE IF /\ TextLength(t) < TIME_THRESHOLDS.SHORT_ANSWER_THRESHOLD
             /\ Contains(t, UncertainTerms)
          THEN TRUE
     ELSE IF analyzeTimeContext(t, date) # "null"
          THEN analyzeTimeContext(t, date) = "true"
     ELSE FALSE

\* variant: the exclusion patterns are consulted after every other rule
needsWebSearchInfo_ExclusionLast(t, date) ==
  LET yearBasedDecision ==
        analyzeYearBasedSearchNeed(extractYearsFromText(t), t, date.year)
      moderateMatchCount ==
        Cardinality({k \in getModeratePatterns : ModeratePatternTest(k, t, date.year)})
  IN IF yearBasedDecision # "null" THEN yearBasedDecision = "true"
     ELSE IF \E k \in getStrongPatterns : StrongPatternTest(k, t, date.year) THEN TRUE
     ELSE IF moderateMatchCount >= TIME_THRESHOLDS.MODERATE_MATCH_THRESHOLD THEN TRUE
     ELSE IF /\ TextLength(t) < TIME_THRESHOLDS.SHORT_ANSWER_THRESHOLD
             /\ Contains(t, UncertainTerms)
          THEN TRUE
     ELSE IF analyzeTimeContext(t, date) # "null"
          THEN analyzeTimeContext(t, date) = "true"
     ELSE FALSE

needsWebSearchInfo(t, date) ==
  LET yearBasedDecision ==
        analyzeYearBasedSearchNeed(extractYearsFromText(t), t, date.year)
      moderateMatchCount ==
        Cardinality({k \in getModeratePatterns : ModeratePatternTest(k, t, date.year)})
  IN IF yearBasedDecision # "null" THEN yearBasedDecision = "true"
     ELSE IF \E k \in getStrongPatterns : StrongPatternTest(k, t, date.year) THEN TRUE
     ELSE IF Contains(t, getExclusionPatterns) THEN FALSE
     ELSE IF moderateMatchCount >= TIME_THRESHOLDS.MODERATE_MATCH_THRESHOLD THEN TRUE
     ELSE IF /\ TextLength(t) < TIME_THRESHOLDS.SHORT_ANSWER_THRESHOLD
             /\ Contains(t, UncertainTerms)
          THEN TRUE
     ELSE IF analyzeTimeContext(t, date) # "null"
          THEN analyzeTimeContext(t, date) = "true"
     ELSE FALSE

(***************************************************************************)
(* The answers the classifier is run on: up to MaxFragments fragments.     *)
(***************************************************************************)
\* the year and month of the knowledge-cutoff admission of the test suite
CutoffYear == 2023
CutoffMonth == 9

\* "watashi no chishiki wa 2023 nen 9 gatsu made desu."
Cutoff ==
  <<Lex("watashi_no_chishiki_wa"), Nen(CutoffYear), Gatsu(CutoffMonth),
    Lex("made"), Lex("desu")>>

TextYears == {FirstYear - 5, FirstYear - 1, FirstYear, MaxYear + 1}
TextMonths == {5}
CurrentMonths == {1, 12}

Words ==
  {"watashi_no_chishiki_wa", "made", "no_joho", "iko", "jiten",
   "saishin_no_data_ga_arimasen", "kuwashiku_setsumei_shimasu",
   "genzai_no_joho_dewa", "saishin_no_jokyo", "koshiki_site_de_kakunin",
   "wakarimasen", "nagai_setsumei", "ni_hatsubai_sareta"}

Fragments ==
  {<<Nen(y)>> : y \in TextYears} \cup {<<Gatsu(m)>> : m \in TextMonths}
    \cup {<<Lex(w)>> : w \in Words} \cup {Cutoff}

InitClassifier ==
  /\ interval = 1
  /\ uniqueTokenPerInterval = 0
  /\ maxReq = 1
  /\ tokenRequests = <<>>
  /\ now = 0
  /\ nextSweep = 1
  /\ last = NoOp
  /\ granted = [k \in Tokens |-> <<>>]
  /\ sinceEvict = [k \in Tokens |-> <<>>]
  /\ scn = Fresh
  /\ rejected = {}
  /\ pendingEvicted = {}
  /\ evictedEver = {}
  /\ text = <<>>
  /\ currentDate \in [year : FirstYear..MaxYear, month : CurrentMonths]
  /\ answer = "none"
  /\ NoSecondCall
  /\ HandlerIdle
  /\ NoCheckRunning

\* the answer grows by one fragment
AppendFragment ==
  /\ answer = "none"
  /\ Len(text) < MaxFragments
  /\ \E f \in Fragments : text' = Append(text, f)
  /\ UNCHANGED <<currentDate, answer, limiterVars, callVars, routeVars, stepVars>>

\* needsWebSearchInfo(responseContent) (route.ts:108)
Classify ==
  /\ answer = "none"
  /\ answer' = IF needsWebSearchInfo(Flatten(text), currentDate) THEN "true" ELSE "false"
  /\ UNCHANGED <<text, currentDate, limiterVars, callVars, routeVars, stepVars>>

NextClassifier == AppendFragment \/ Classify

SpecClassifier == InitClassifier /\ [][NextClassifier]_vars

(***************************************************************************)
(* Properties of the classifier.                                           *)
(***************************************************************************)
MentionedYears == extractYearsFromText(Flatten(text))

\* the classified text contains the knowledge-cutoff admission and mentions
\* no year other than the cutoff year
CutoffAdmission ==
  /\ answer # "none"
  /\ \E i \in 1..Len(text) : text[i] = Cutoff
  /\ \A i \in 1..Len(MentionedYears) : MentionedYears[i] = CutoffYear

\* C9 as stated: a text containing the knowledge-cutoff admission whose only
\* mentioned year is 2023 is classified true for every current date.
C9_CutoffAnyDate == CutoffAdmission => answer = "true"

\* C9 amended: such a text is classified true whenever the current year is
\* at most 2025 (2023 is then not more than 2 years old) or the text also
\* contains one of the recency terms.
C9_CutoffWhileRecent ==
  (/\ CutoffAdmission
   /\ \/ currentDate.year <= CutoffYear + 2
      \/ Contains(Flatten(text), RecentTerms))
  => answer = "true"

C9_Witness ==
  /\ CutoffAdmission
  /\ currentDate.year = CutoffYear + 2
  /\ Contains(Flatten(text), getExclusionPatterns)
  /\ ~Contains(Flatten(text), RecentTerms)
  /\ answer = "true"

HasFutureYear ==
  \E i \in 1..Len(MentionedYears) : MentionedYears[i] > currentDate.year

\* C10: a text mentioning at least one year greater than the current year is
\* classified true, whatever else it contains.
C10_FutureYear == (answer # "none" /\ HasFutureYear) => answer = "true"

C10_Witness ==
  /\ answer = "true"
  /\ HasFutureYear
  /\ \E i \in 1..Len(MentionedYears) : MentionedYears[i] < currentDate.year - 2
  /\ Contains(Flatten(text), getExclusionPatterns)

\* every mentioned year is more than OLD_YEAR_THRESHOLD years before the
\* current year
AllYearsOld ==
  \A i \in 1..Len(MentionedYears) :
    MentionedYears[i] < currentDate.year - TIME_THRESHOLDS.OLD_YEAR_THRESHOLD

StrongMatch ==
  \E k \in getStrongPatterns : StrongPatternTest(k, Flatten(text), currentDate.year)

\* C11: a text that mentions at least one year, only years more than 2 years
\* before the current year, and none of the recency terms is classified
\* false, whatever the strong, moderate, short-uncertain and time-context
\* rules would say about it.
C11_OldYearsOnly ==
  (/\ answer # "none"
   /\ MentionedYears # <<>>
   /\ AllYearsOld
   /\ ~Contains(Flatten(text), RecentTerms))
  => answer = "false"

C11_Witness ==
  /\ answer = "false"
  /\ MentionedYears # <<>>
  /\ AllYearsOld
  /\ ~Contains(Flatten(text), RecentTerms)
  /\ StrongMatch
  /\ Contains(Flatten(text), UncertainTerms)

YearDecision ==
  analyzeYearBasedSearchNeed(MentionedYears, Flatten(text), currentDate.year)

ExclusionMatch == Contains(Flatten(text), getExclusionPatterns)

ModerateMatchCount ==
  Cardinality({k \in getModeratePatterns :
                 ModeratePatternTest(k, Flatten(text), currentDate.year)})

ShortUncertain ==
  /\ TextLength(Flatten(text)) < TIME_THRESHOLDS.SHORT_ANSWER_THRESHOLD
  /\ Contains(Flatten(text), UncertainTerms)

TimeContextDecision == analyzeTimeContext(Flatten(text), currentDate)

\* no rule of the decision list is decisive
NoRuleDecisive ==
  /\ YearDecision = "null"
  /\ ~StrongMatch
  /\ ~ExclusionMatch
  /\ ModerateMatchCount < TIME_THRESHOLDS.MODERATE_MATCH_THRESHOLD
  /\ ~ShortUncertain
  /\ TimeContextDecision = "null"

\* C12: the empty text, and every text on which no rule of the decision list
\* is decisive, is classified false.
C12_DefaultFalse ==
  (answer # "none" /\ (text = <<>> \/ NoRuleDecisive)) => answer = "false"

C12_Witness ==
  /\ answer = "false"
  /\ text # <<>>
  /\ NoRuleDecisive
  /\ ModerateMatchCount = 1
  /\ Contains(Flatten(text), UncertainTerms)

\* C19 as stated: a text matching both a strong pattern and an exclusion
\* pattern is classified true.
C19_StrongOverExclusionAlways ==
  (answer # "none" /\ StrongMatch /\ ExclusionMatch) => answer = "true"

\* C19 amended: a text matching both a strong pattern and an exclusion
\* pattern is classified true unless the year rule has already classified
\* it false (it mentions years, each more than 2 years before the current
\* year, and no recency term).
C19_StrongOverExclusion ==
  (/\ answer # "none"
   /\ StrongMatch
   /\ ExclusionMatch
   /\ ~(MentionedYears # <<>> /\ AllYearsOld /\ ~Contains(Flatten(text), RecentTerms)))
  => answer = "true"

C19_Witness ==
  /\ answer = "true"
  /\ StrongMatch
  /\ ExclusionMatch
  /\ YearDecision = "null"
  /\ MentionedYears # <<>>

(***************************************************************************)
(* Properties of the sweep.                                                *)
(***************************************************************************)
\* number of occurrences of the timestamp v in the list
Occurrences(timestamps, v) ==
  Cardinality({i \in 1..Len(timestamps) : timestamps[i] = v})

\* C20: right after a sweep at time now every tracked identity has at least
\* one timestamp, every recorded timestamp t satisfies now - t < interval,
\* and every timestamp that was inside the window before the sweep is still
\* recorded for its identity; nothing else is recorded.
C20_SweepExact ==
  [][(last'.op = "sweep") =>
       /\ \A i \in 1..Len(tokenRequests') :
            /\ tokenRequests'[i].ts # <<>>
            /\ \A j \in 1..Len(tokenRequests'[i].ts) :
                 now' - tokenRequests'[i].ts[j] < interval
       /\ \A k \in Tokens : \A v \in 0..MaxTime :
            Occurrences(MapGet(tokenRequests', k), v)
              = IF now - v < interval
                THEN Occurrences(MapGet(tokenRequests, k), v)
                ELSE 0
       /\ MapKeys(tokenRequests') \subseteq MapKeys(tokenRequests)]_vars

\* a sweep has dropped one identity altogether and trimmed the list of one
\* that stays tracked
C20_Witness ==
  /\ last.op = "sweep"
  /\ uniqueTokenPerInterval = MaxUnique
  /\ \E a \in Tokens, b \in Tokens :
       /\ MapHas(tokenRequests, a)
       /\ Len(MapGet(tokenRequests, a)) < Len(granted[a])
       /\ ~MapHas(tokenRequests, b)
       /\ granted[b] # <<>>

(***************************************************************************)
(* Repeated calls of the classifier: a call on text, calls on other texts, *)
(* and a second call on text.  Every call reads the clock anew.            *)
(***************************************************************************)
CallTexts == UNION {[1..n -> Fragments] : n \in 0..MaxCallFragments}

\* the texts of the calls made in between
OtherTexts == {<<>>} \cup {<<f>> : f \in Fragments}

Dates == [year : FirstYear..MaxYear, month : CurrentMonths]

\* the clock does not run backwards
NotBefore(d, e) == d.year > e.year \/ (d.year = e.year /\ d.month >= e.month)

InitCalls ==
  /\ interval = 1
  /\ uniqueTokenPerInterval = 0
  /\ maxReq = 1
  /\ tokenRequests = <<>>
  /\ now = 0
  /\ nextSweep = 1
  /\ last = NoOp
  /\ granted = [k \in Tokens |-> <<>>]
  /\ sinceEvict = [k \in Tokens |-> <<>>]
  /\ scn = Fresh
  /\ rejected = {}
  /\ pendingEvicted = {}
  /\ evictedEver = {}
  /\ text \in CallTexts
  /\ currentDate \in Dates
  /\ answer = "none"
  /\ NoSecondCall
  /\ HandlerIdle
  /\ NoCheckRunning

\* needsWebSearchInfo called on another text between the two calls on text
ClassifyOther ==
  /\ answer # "none"
  /\ again = "none"
  /\ \E other \in OtherTexts :
       /\ other # text
       /\ otherAnswer' = IF needsWebSearchInfo(Flatten(other), currentDate)
                         THEN "true" ELSE "false"
  /\ UNCHANGED <<again, againDate, classifierVars, limiterVars, routeVars, stepVars>>

\* needsWebSearchInfo called on text once more, at the date the clock shows then
ClassifyAgain ==
  /\ answer # "none"
  /\ again = "none"
  /\ \E d \in Dates :
       /\ NotBefore(d, currentDate)
       /\ againDate' = d
       /\ again' = IF needsWebSearchInfo(Flatten(text), d) THEN "true" ELSE "false"
  /\ UNCHANGED <<otherAnswer, classifierVars, limiterVars, routeVars, stepVars>>

NextCalls == Classify \/ ClassifyOther \/ ClassifyAgain

SpecCalls == InitCalls /\ [][NextCalls]_vars

RATE_LIMIT_SETTINGS ==
  [INTERVAL_MS |-> 60000, MAX_UNIQUE_TOKENS |-> 50, MAX_REQUESTS_PER_INTERVAL |-> 5]

HTTP_STATUS ==
  [BAD_REQUEST |-> 400, TOO_MANY_REQUESTS |-> 429, INTERNAL_SERVER_ERROR |-> 500,
   GATEWAY_TIMEOUT |-> 504]

\* status of NextResponse.json(data) without an init argument
OK_STATUS == 200

ERROR_MESSAGES ==
  [RATE_LIMIT |-> "Rate limit exceeded. Please try again later.",
   INVALID_PROMPT |-> "Prompt is required and must be a string",
   TIMEOUT |-> "Request timed out",
   GENERAL |-> "Failed to fetch response from OpenAI"]

API_SETTINGS == [MAX_SEARCH_RESULTS |-> 3]

TEST_MODEL_ID == "test-model"
DEFAULT_MODEL == "gpt-4o-mini"
AVAILABLE_MODELS == {"gpt-3.5-turbo", "gpt-4o-mini", "test-model"}

isTestMode(model) == model = TEST_MODEL_ID

\* req.headers.get("x-forwarded-for") || "anonymous"
ClientIp_NoFallback(h) == h

ClientIp(h) == IF h = "" THEN "anonymous" ELSE h

\* the x-forwarded-for header: absent or empty, or an address
Headers == {"", "a"}

\* what req.json() and the destructuring of the body yield: the body is not
\* JSON, it has no prompt (or an empty one), its prompt is not a string, or
\* it is well formed; model is the model field, "none" when absent
Bodies ==
  {[kind |-> k, model |-> "none"] : k \in {"malformed", "noPrompt", "badPrompt"}}
    \cup {[kind |-> "ok", model |-> m] :
            m \in {"none", "gpt-3.5-turbo", "test-model", "unknown"}}

\* validateInput(prompt, model), for a valid prompt
validateInput(model) == IF model \in AVAILABLE_MODELS THEN model ELSE DEFAULT_MODEL

\* the errors thrown in the handler; status 0 is an absent status
RateLimitError == [name |-> "Error", status |-> 0, message |-> ERROR_MESSAGES.RATE_LIMIT]
InvalidPromptError ==
  [name |-> "Error", status |-> 0, message |-> ERROR_MESSAGES.INVALID_PROMPT]
JsonError == [name |-> "SyntaxError", status |-> 0, message |-> "Unexpected token"]
SubstringError ==
  [name |-> "TypeError", status |-> 0, message |-> "prompt?.substring is not a function"]

\* the status the upstream API answered a failed call with, 0 when the call
\* failed without an answer
UpstreamStatuses == {0, 401, 429, 500, 503}

UpstreamError(st) == [name |-> "Error", status |-> st, message |-> "upstream"]

\* the name of the error an aborted call rejects with
AbortNames == {"AbortError", "Error"}

AbortRejection(n) == [name |-> n, status |-> 0, message |-> "Request was aborted."]

\* variant: an invalid prompt is answered like any other failure
ErrorStatus_NoBadRequest(e) ==
  IF e.name = "AbortError" THEN HTTP_STATUS.GATEWAY_TIMEOUT
  ELSE IF e.status # 0 THEN e.status
  ELSE HTTP_STATUS.INTERNAL_SERVER_ERROR

\* the status the two catch blocks of POST answer a thrown error with
ErrorStatus(e) ==
  IF e.message = ERROR_MESSAGES.INVALID_PROMPT THEN HTTP_STATUS.BAD_REQUEST
  ELSE IF e.name = "AbortError" THEN HTTP_STATUS.GATEWAY_TIMEOUT
  ELSE IF e.status # 0 THEN e.status
  ELSE HTTP_STATUS.INTERNAL_SERVER_ERROR

\* the status POST answers a failed checkRateLimit with: checkRateLimit
\* replaces whatever check threw by one error, and POST catches it
CheckFailureStatus(res) == HTTP_STATUS.TOO_MANY_REQUESTS

\* the answers of the first and of the second completion call
InitialAnswers == {<<>>, <<Lex("wakarimasen")>>, <<Lex("nagai_setsumei")>>, Cutoff}
SecondAnswers == {<<>>, <<Lex("wakarimasen")>>, <<Lex("kuwashiku_setsumei_shimasu")>>}

\* generateTestResponse(prompt).text and TEST_RESPONSES.WEB_SEARCH(prompt, initialResponse)
TestResponse == <<Lex("test_mode_response")>>
TestWebSearchResponse(initial) == <<Lex("test_mode_web_search")>> \o initial

\* what the search provider does: it throws, or it yields found results
ProviderOutcomes ==
  {[threw |-> TRUE, found |-> 0]}
    \cup {[threw |-> FALSE, found |-> n] : n \in 0..MaxProviderResults}

\* formatSearchResults(searchResults, limit) of webSearch.ts
formatSearchResults(found, limit) ==
  IF found > 0
  THEN [threw |-> FALSE, count |-> IF found < limit THEN found ELSE limit]
  ELSE [threw |-> TRUE, count |-> 0]

\* generateDummySearchResults(query, limit): four fixed results
generateDummySearchResults(limit) == IF limit < 4 THEN limit ELSE 4

\* performWebSearch(query, limit), given what the provider does when asked
performWebSearch(model, o, limit) ==
  IF model = "null" \/ isTestMode(model)
  THEN [provider |-> "dummy", found |-> 0, threw |-> FALSE,
        count |-> generateDummySearchResults(limit)]
  ELSE IF o.threw
       THEN [provider |-> "threw", found |-> 0, threw |-> TRUE, count |-> 0]
       ELSE [provider |-> "results", found |-> o.found,
             threw |-> formatSearchResults(o.found, limit).threw,
             count |-> formatSearchResults(o.found, limit).count]

\* variant: the second completion call is made whatever the search did
NeedsSecondCall_Always(r) == TRUE

\* generateResponseWithWebSearch goes on to the second completion call
NeedsSecondCall(r) == ~r.threw /\ r.count # 0

\* variant: an empty second answer is returned as it is
FinalResponse_KeepsEmpty(finalResponse, initial) == finalResponse

\* finalResponse || initialResponse
FinalResponse(finalResponse, initial) ==
  IF finalResponse = <<>> THEN initial ELSE finalResponse

\* variant: every initial answer is augmented
NeedsAugmentation_Always(a, date) == TRUE

\* generateApiResponse goes on to generateResponseWithWebSearch
NeedsAugmentation(a, date) == needsWebSearchInfo(a, date)

InitRoute ==
  /\ interval = RATE_LIMIT_SETTINGS.INTERVAL_MS
  /\ uniqueTokenPerInterval = RATE_LIMIT_SETTINGS.MAX_UNIQUE_TOKENS
  /\ maxReq = RATE_LIMIT_SETTINGS.MAX_REQUESTS_PER_INTERVAL
  /\ tokenRequests = <<>>
  /\ now = 0
  /\ nextSweep = RATE_LIMIT_SETTINGS.INTERVAL_MS
  /\ last = NoOp
  /\ granted = [k \in Tokens |-> <<>>]
  /\ sinceEvict = [k \in Tokens |-> <<>>]
  /\ scn = Fresh
  /\ rejected = {}
  /\ pendingEvicted = {}
  /\ evictedEver = {}
  /\ text = <<>>
  /\ currentDate = [year |-> FirstYear, month |-> 1]
  /\ answer = "none"
  /\ NoSecondCall
  /\ HandlerIdle
  /\ NoCheckRunning

routeFrame == <<interval, uniqueTokenPerInterval, now, nextSweep, maxReq, granted,
                sinceEvict, scn, rejected, pendingEvicted, evictedEver, classifierVars, callVars,
                stepVars>>

\* POST up to await req.json(): the identity is read and checkRateLimit runs
PostCheck ==
  /\ pc = "idle"
  /\ served < MaxServed
  /\ \E h \in Headers, b \in Bodies :
       LET ip == ClientIp(h)
           res == CheckResult(tokenRequests, maxReq, ip, now, interval)
       IN /\ header' = h
          /\ body' = b
          /\ tokenRequests' = CheckLedger(tokenRequests, maxReq, ip, now, interval,
                                          uniqueTokenPerInterval)
          /\ last' = [NoOp EXCEPT !.op = "check", !.token = ip,
                                  !.maxRequests = maxReq, !.result = res]
          /\ IF res = "ok"
             THEN /\ pc' = "json"
                  /\ UNCHANGED <<status, error>>
             ELSE /\ pc' = "done"
                  /\ error' = RateLimitError
                  /\ status' = CheckFailureStatus(res)
  /\ served' = served + 1
  /\ UNCHANGED <<selectedModel, currentModel, timer, aborted, timedOutAt,
                 initialResponse, searchResults, secondResponse, finalContent,
                 calls, routeFrame>>

\* POST from the parsed body to the first completion call in flight
PostParsed ==
  /\ pc = "json"
  /\ IF body.kind # "ok"
     THEN /\ error' = CASE body.kind = "malformed" -> JsonError
                        [] body.kind = "badPrompt" -> SubstringError
                        [] OTHER -> InvalidPromptError
          /\ status' = ErrorStatus(error')
          /\ pc' = "done"
          /\ UNCHANGED <<selectedModel, currentModel, timer, finalContent, calls>>
     ELSE IF isTestMode(validateInput(body.model))
     THEN /\ selectedModel' = validateInput(body.model)
          /\ finalContent' = TestResponse
          /\ status' = OK_STATUS
          /\ pc' = "done"
          /\ UNCHANGED <<error, currentModel, timer, calls>>
     ELSE /\ selectedModel' = validateInput(body.model)
          /\ timer' = TRUE
          /\ currentModel' = validateInput(body.model)
          /\ calls' = <<"initial">>
          /\ pc' = "initial"
          /\ UNCHANGED <<error, status, finalContent>>
  /\ UNCHANGED <<header, body, aborted, timedOutAt, initialResponse,
                 searchResults, secondResponse, served, tokenRequests, last,
                 routeFrame>>

\* setTimeout(() => controller.abort(), API_TIMEOUT_MS) fires
TimeoutFires ==
  /\ timer
  /\ pc \in {"initial", "keywords", "search", "second"}
  /\ aborted' = TRUE
  /\ timedOutAt' = pc
  /\ timer' = FALSE
  /\ UNCHANGED <<pc, header, body, selectedModel, currentModel, initialResponse,
                 searchResults, secondResponse, finalContent, status, error,
                 calls, served, tokenRequests, last, routeFrame>>

\* the first completion call returns an answer
InitialResolves ==
  /\ pc = "initial"
  /\ ~aborted
  /\ \E a \in InitialAnswers :
       /\ initialResponse' = a
       /\ IF ~NeedsAugmentation(a, currentDate)
          THEN /\ finalContent' = a
               /\ status' = OK_STATUS
               /\ timer' = FALSE
               /\ pc' = "done"
          ELSE IF isTestMode(selectedModel)
          THEN /\ finalContent' = TestWebSearchResponse(a)
               /\ status' = OK_STATUS
               /\ timer' = FALSE
               /\ pc' = "done"
          ELSE /\ pc' = "keywords"
               /\ UNCHANGED <<finalContent, status, timer>>
  /\ UNCHANGED <<header, body, selectedModel, currentModel, aborted, timedOutAt,
                 searchResults, secondResponse, error, calls, served,
                 tokenRequests, last, routeFrame>>

\* the first completion call fails upstream
InitialRejects ==
  /\ pc = "initial"
  /\ ~aborted
  /\ \E st \in UpstreamStatuses :
       /\ error' = UpstreamError(st)
       /\ status' = ErrorStatus(error')
  /\ timer' = FALSE
  /\ pc' = "done"
  /\ UNCHANGED <<header, body, selectedModel, currentModel, aborted, timedOutAt,
                 initialResponse, searchResults, secondResponse, finalContent,
                 calls, served, tokenRequests, last, routeFrame>>

\* the first completion call, aborted through its signal, rejects
InitialAborts ==
  /\ pc = "initial"
  /\ aborted
  /\ \E n \in AbortNames :
       /\ error' = AbortRejection(n)
       /\ status' = ErrorStatus(error')
  /\ pc' = "done"
  /\ UNCHANGED <<header, body, selectedModel, currentModel, timer, aborted,
                 timedOutAt, initialResponse, searchResults, secondResponse,
                 finalContent, calls, served, tokenRequests, last, routeFrame>>

\* extractSearchKeywords(prompt) returns; it catches every error itself
KeywordsDone ==
  /\ pc = "keywords"
  /\ calls' = IF currentModel = "null" \/ isTestMode(currentModel)
              THEN calls ELSE Append(calls, "keywords")
  /\ pc' = "search"
  /\ UNCHANGED <<header, body, selectedModel, currentModel, timer, aborted,
                 timedOutAt, initialResponse, searchResults, secondResponse,
                 finalContent, status, error, served, tokenRequests, last,
                 routeFrame>>

\* performWebSearch returns or throws, and generateResponseWithWebSearch
\* either returns the initial answer or starts the second completion call
SearchDone ==
  /\ pc = "search"
  /\ \E o \in ProviderOutcomes :
       LET r == performWebSearch(currentModel, o, API_SETTINGS.MAX_SEARCH_RESULTS)
           searched == IF r.provider = "dummy" THEN calls ELSE Append(calls, "search")
       IN /\ searchResults' = r
          /\ IF NeedsSecondCall(r)
             THEN /\ calls' = Append(searched, "second")
                  /\ pc' = "second"
                  /\ UNCHANGED <<finalContent, status, timer>>
             ELSE /\ calls' = searched
                  /\ finalContent' = initialResponse
                  /\ status' = OK_STATUS
                  /\ timer' = FALSE
                  /\ pc' = "done"
  /\ UNCHANGED <<header, body, selectedModel, currentModel, aborted, timedOutAt,
                 initialResponse, secondResponse, error, served, tokenRequests,
                 last, routeFrame>>

\* the second completion call returns
SecondResolves ==
  /\ pc = "second"
  /\ \E a \in SecondAnswers :
       /\ secondResponse' = [outcome |-> "returned", text |-> a]
       /\ finalContent' = FinalResponse(a, initialResponse)
  /\ status' = OK_STATUS
  /\ timer' = FALSE
  /\ pc' = "done"
  /\ UNCHANGED <<header, body, selectedModel, currentModel, aborted, timedOutAt,
                 initialResponse, searchResults, error, calls, served,
                 tokenRequests, last, routeFrame>>

\* the second completion call throws
SecondRejects ==
  /\ pc = "second"
  /\ secondResponse' = [outcome |-> "threw", text |-> <<>>]
  /\ finalContent' = initialResponse
  /\ status' = OK_STATUS
  /\ timer' = FALSE
  /\ pc' = "done"
  /\ UNCHANGED <<header, body, selectedModel, currentModel, aborted, timedOutAt,
                 initialResponse, searchResults, error, calls, served,
                 tokenRequests, last, routeFrame>>

\* the response is sent; the handler is ready for the next request
NextRequest ==
  /\ pc = "done"
  /\ pc' = "idle"
  /\ header' = ""
  /\ body' = NoBody
  /\ selectedModel' = "none"
  /\ timer' = FALSE
  /\ aborted' = FALSE
  /\ timedOutAt' = "none"
  /\ initialResponse' = <<>>
  /\ searchResults' = NoSearch
  /\ secondResponse' = NoSecond
  /\ finalContent' = <<>>
  /\ status' = 0
  /\ error' = NoError
  /\ calls' = <<>>
  /\ UNCHANGED <<currentModel, served, tokenRequests, last, routeFrame>>

NextRoute ==
  \/ PostCheck
  \/ PostParsed
  \/ TimeoutFires
  \/ InitialResolves
  \/ InitialRejects
  \/ InitialAborts
  \/ KeywordsDone
  \/ SearchDone
  \/ SecondResolves
  \/ SecondRejects
  \/ NextRequest

SpecRoute == InitRoute /\ [][NextRoute]_vars

(***************************************************************************)
(* Properties of the augmentation flow and of the POST handler.            *)
(***************************************************************************)
\* generateResponseWithWebSearch was called and has called performWebSearch
Augmented == searchResults.provider # "none"

\* the search provider answered with an empty result list
SearchEmpty == searchResults.provider = "results" /\ searchResults.found = 0

\* C14: when the web search yields an empty result list the request is
\* answered with the initial answer, and the second completion call is not
\* made.
C14_EmptySearch ==
  SearchEmpty =>
    /\ pc = "done"
    /\ status = OK_STATUS
    /\ finalContent = initialResponse
    /\ secondResponse = NoSecond
    /\ \A i \in 1..Len(calls) : calls[i] # "second"

C14_Witness ==
  /\ SearchEmpty
  /\ pc = "done"
  /\ calls = <<"initial", "keywords", "search">>
  /\ initialResponse = Cutoff
  /\ finalContent = Cutoff

\* the augmentation failed: the search threw, or the second completion call
\* threw or returned an empty text
AugmentationFailed ==
  \/ searchResults.threw
  \/ secondResponse.outcome = "threw"
  \/ (secondResponse.outcome = "returned" /\ secondResponse.text = <<>>)

C16_TimeoutIs504 ==
  (pc = "done" /\ timedOutAt = "initial") => status = HTTP_STATUS.GATEWAY_TIMEOUT

Failed == pc = "done" /\ status # OK_STATUS

LimiterRejected == last.result = "RateLimitExceeded"

CheckAwaits_BeforeCommit(at) == at = "pushed"

\* check awaits at this position: its body holds no await
CheckAwaits(at) == FALSE

\* the caller may take its next step
MayRun(r) ==
  \/ running = r
  \/ running = 0 /\ (frames[r].at = "idle" \/ CheckAwaits(frames[r].at))

\* who holds the thread once the caller stands at the position
Holder(r, at) == IF at = "idle" \/ CheckAwaits(at) THEN 0 ELSE r

\* lines 125-139: validation, the read of the list, the clock, the filter
\* and the comparison with maxRequests
CheckRead(r, token) ==
  LET recentRequests == filterRecentRequests(MapGet(tokenRequests, token), now, interval)
      at == IF Len(recentRequests) >= maxReq THEN "idle" ELSE "filtered"
  IN
  /\ MayRun(r)
  /\ frames[r].at = "idle"
  /\ Len(InWindow(sinceEvict[token], now, interval)) < MaxGranted
  /\ frames' = [frames EXCEPT ![r] =
                  IF at = "idle" THEN IdleFrame
                  ELSE [at |-> at, token |-> token, t |-> now,
                        recentRequests |-> recentRequests, seen |-> tokenRequests]]
  /\ running' = Holder(r, at)
  /\ last' = [NoOp EXCEPT !.op = "check", !.token = token, !.maxRequests = maxReq,
                          !.result = IF at = "idle" THEN "RateLimitExceeded"
                                     ELSE "none"]
  /\ UNCHANGED <<interval, uniqueTokenPerInterval, tokenRequests, now, nextSweep,
                 maxReq, granted, sinceEvict, scn, rejected, pendingEvicted, evictedEver,
                 classifierVars, callVars, routeVars>>

\* line 142: recentRequests.push(now)
CheckPush(r) ==
  /\ MayRun(r)
  /\ frames[r].at = "filtered"
  /\ frames' = [frames EXCEPT ![r].at = "pushed",
                              ![r].recentRequests = Append(@, frames[r].t)]
  /\ running' = Holder(r, "pushed")
  /\ UNCHANGED <<limiterVars, classifierVars, callVars, routeVars>>

\* line 143: tokenRequests.set(token, recentRequests)
CheckSet(r) ==
  /\ MayRun(r)
  /\ frames[r].at = "pushed"
  /\ tokenRequests' = MapSet(tokenRequests, frames[r].token, frames[r].recentRequests)
  /\ frames' = [frames EXCEPT ![r].at = "set"]
  /\ running' = Holder(r, "set")
  /\ UNCHANGED <<interval, uniqueTokenPerInterval, now, nextSweep, maxReq, last,
                 granted, sinceEvict, scn, rejected, pendingEvicted, evictedEver,
                 classifierVars, callVars, routeVars>>

\* line 146 and the return: enforceUniqueTokenLimit
CheckEnforce(r) ==
  LET token == frames[r].token
      ev == IF Len(tokenRequests) > uniqueTokenPerInterval
            THEN OldestToken(tokenRequests) ELSE EmptyToken
  IN
  /\ MayRun(r)
  /\ frames[r].at = "set"
  /\ tokenRequests' = enforceUniqueTokenLimit(tokenRequests, uniqueTokenPerInterval)
  /\ sinceEvict' = [k \in Tokens |->
                      IF k = ev THEN <<>>
                      ELSE IF k = token
                           THEN Append(InWindow(sinceEvict[k], frames[r].t, interval),
                                       frames[r].t)
                           ELSE sinceEvict[k]]
  /\ last' = [NoOp EXCEPT !.op = "check", !.token = token, !.maxRequests = maxReq,
                          !.result = "ok", !.evicted = ev]
  /\ frames' = [frames EXCEPT ![r] = IdleFrame]
  /\ running' = 0
  /\ UNCHANGED <<interval, uniqueTokenPerInterval, now, nextSweep, maxReq, granted,
                 scn, rejected, pendingEvicted, classifierVars, callVars, routeVars>>
  /\ evictedEver' = IF ev # EmptyToken THEN evictedEver \cup {ev} ELSE evictedEver

NextSteps ==
  \/ Tick
  \/ Sweep
  \/ \E r \in Callers, token \in Tokens : CheckRead(r, token)
  \/ \E r \in Callers : CheckPush(r)
  \/ \E r \in Callers : CheckSet(r)
  \/ \E r \in Callers : CheckEnforce(r)

SpecSteps == Init /\ [][NextSteps]_vars

\* between whole calls nobody stands inside check, and every identity's
\* recorded timestamps of the window are the times of its successful checks
\* since its latest eviction
BetweenCalls ==
  /\ \A r \in Callers : frames[r].at # "idle" => running = r
  /\ running = 0 =>
       \A k \in Tokens :
         filterRecentRequests(MapGet(tokenRequests, k), now, interval)
           = InWindow(sinceEvict[k], now, interval)

\* the ledger a returning call leaves is the one the whole call computes
\* from the ledger it read
WholeCall ==
  \A r \in Callers :
    (frames[r].at = "set" /\ frames'[r].at = "idle") =>
      tokenRequests' = CheckLedger(frames[r].seen, maxReq, frames[r].token,
                                   frames[r].t, interval, uniqueTokenPerInterval)

\* C21: while a call of check stands between its read of the list and the
\* end of the eviction it holds the thread, so the sweep and the other calls
\* of check run only between whole calls; the ledger a call leaves is the
\* one the whole call computes from the ledger it read, and no timestamp of
\* a successful check is lost.
C21_CheckIsOneStep == []BetweenCalls /\ [][WholeCall]_vars

\* a call has written its list and not yet evicted, the ledger is over its
\* capacity, and the sweep is due
C21_Witness ==
  /\ \E r \in Callers : frames[r].at = "set" /\ running = r
  /\ Len(tokenRequests) > uniqueTokenPerInterval
  /\ uniqueTokenPerInterval >= 1
  /\ now >= nextSweep

(***************************************************************************)
(* Properties of the later rules of the classifier.                        *)
(***************************************************************************)
\* the year rule is not decisive and neither a strong nor an exclusion
\* pattern matches
ModerateRuleReached ==
  /\ answer # "none"
  /\ YearDecision = "null"
  /\ ~StrongMatch
  /\ ~ExclusionMatch

\* C22: when the year rule is not decisive and neither a strong nor an
\* exclusion pattern matches, a text matching at least 2 distinct moderate
\* patterns is classified true, and a text matching exactly one moderate
\* pattern, with no short-uncertain and no time-context signal, is
\* classified false.
C22_ModerateThreshold ==
  ModerateRuleReached =>
    /\ ModerateMatchCount >= 2 => answer = "true"
    /\ (ModerateMatchCount = 1 /\ ~ShortUncertain /\ TimeContextDecision = "null")
         => answer = "false"

\* exactly two moderate patterns match, one of them through the current
\* year, and no later rule would classify the text true
C22_Witness ==
  /\ ModerateRuleReached
  /\ ModerateMatchCount = 2
  /\ MentionedYears # <<>>
  /\ ~ShortUncertain
  /\ TimeContextDecision = "null"
  /\ answer = "true"

\* C23: when the year rule is not decisive and no strong pattern matches, a
\* text matching an exclusion pattern is classified false, however many
\* moderate patterns match and whatever the short-uncertain and time-context
\* rules would say.
C23_ExclusionOverridesLater ==
  (answer # "none" /\ YearDecision = "null" /\ ~StrongMatch /\ ExclusionMatch)
  => answer = "false"

\* an excluded text that the short-uncertain rule and the time-context rule
\* would both classify true
C23_Witness ==
  /\ answer = "false"
  /\ YearDecision = "null"
  /\ ~StrongMatch
  /\ ExclusionMatch
  /\ ShortUncertain
  /\ TimeContextDecision = "true"

ClassifiedText == Flatten(text)

\* positions of the mentions "year genzai" and "year jiten"
ContextMentions ==
  {i \in 1..(Len(ClassifiedText) - 1) :
     /\ ClassifiedText[i].w = "nen"
     /\ ClassifiedText[i + 1].w \in TimeContextTerms}

\* positions of the mentions "year month"
MonthMentions ==
  {i \in 1..(Len(ClassifiedText) - 1) :
     ClassifiedText[i].w = "nen" /\ ClassifiedText[i + 1].w = "gatsu"}

\* the first "year month" mention lies before the same month of the
\* previous year
FirstMonthMentionOld ==
  /\ MonthMentions # {}
  /\ LET i == Leftmost(MonthMentions)
     IN ClassifiedText[i].n * 12 + ClassifiedText[i + 1].n
          < (currentDate.year - 1) * 12 + currentDate.month

HistoricalFact == Contains(ClassifiedText, HistoricalFactTerms)

\* C24 as stated: a text with a "year genzai" or "year jiten" mention of a
\* year before the previous year is classified true, and so is a text whose
\* first "year month" mention is dated before the same month of the previous
\* year and which holds no historical-fact verb.
C24_TimeContextAlways ==
  answer # "none" =>
    /\ (\E i \in ContextMentions : ClassifiedText[i].n < currentDate.year - 1)
         => answer = "true"
    /\ (FirstMonthMentionOld /\ ~HistoricalFact) => answer = "true"

\* no rule before the time-context rule is decisive
TimeContextReached ==
  /\ answer # "none"
  /\ YearDecision = "null"
  /\ ~StrongMatch
  /\ ~ExclusionMatch
  /\ ModerateMatchCount < 2
  /\ ~ShortUncertain

\* C24 amended: when no earlier rule is decisive, the text is classified
\* true if its first "year genzai" or "year jiten" mention names a year
\* before the previous year, or if its first "year month" mention is dated
\* before the same month of the previous year and the text holds no
\* historical-fact verb; otherwise it is classified false.
C24_TimeContextWhenReached ==
  TimeContextReached =>
    (answer = "true" <=>
       \/ /\ ContextMentions # {}
          /\ ClassifiedText[Leftmost(ContextMentions)].n < currentDate.year - 1
       \/ FirstMonthMentionOld /\ ~HistoricalFact)

\* a month of the previous year, earlier than the current month, decides
C24_Witness ==
  /\ TimeContextReached
  /\ ContextMentions = {}
  /\ MonthMentions # {}
  /\ ClassifiedText[Leftmost(MonthMentions)].n = currentDate.year - 1
  /\ FirstMonthMentionOld
  /\ answer = "true"

(***************************************************************************)
(* Properties of the request's timeout and of the order of its calls.      *)
(***************************************************************************)
\* C25: once the timeout of a request has fired, the call in flight is
\* aborted: it returns no result, and the handler starts no further
\* external call but goes on to answer only.
C25_AbortsCallInFlight ==
  [][aborted =>
       /\ pc' # pc => pc' \in {"done", "idle"}
       /\ searchResults' # searchResults => searchResults'.provider # "results"
       /\ secondResponse' # secondResponse => secondResponse'.outcome # "returned"]_vars

\* the external calls of a request, in the order the handler makes them
CallOrder == <<"initial", "keywords", "search", "second">>

\* the first completion call has returned initialResponse
InitialReturned == calls # <<>> /\ pc \notin {"initial"} /\ error = NoError

\* C26: when the classifier returns false for the initial answer the request
\* is answered successfully with the initial answer and no keyword
\* extraction, web search or second completion call is made; those calls are
\* made only when the classifier returned true, and in the order keyword
\* extraction, web search, second completion call.
C26_AugmentationOrder ==
  /\ (InitialReturned /\ ~needsWebSearchInfo(initialResponse, currentDate)) =>
       /\ pc = "done"
       /\ status = OK_STATUS
       /\ finalContent = initialResponse
       /\ calls = <<"initial">>
       /\ searchResults = NoSearch
       /\ secondResponse = NoSecond
  /\ calls = SubSeq(CallOrder, 1, Len(calls))
  /\ (Len(calls) > 1 \/ pc \in {"keywords", "search", "second"}) =>
       needsWebSearchInfo(initialResponse, currentDate)
  /\ pc = "search" => calls = SubSeq(CallOrder, 1, 2)
  /\ pc = "second" => calls = CallOrder

\* a long initial answer, classified false, is the final answer
C26_Witness ==
  /\ pc = "done"
  /\ InitialReturned
  /\ initialResponse # <<>>
  /\ ~needsWebSearchInfo(initialResponse, currentDate)
  /\ finalContent = initialResponse
  /\ calls = <<"initial">>

(***************************************************************************)
(* Properties of the rate limiter under eviction.                          *)
(***************************************************************************)
\* C27: an identity that has never been evicted has at most maxRequests
\* successful checks inside any rolling window of length interval; in
\* particular the bound holds for every identity as long as no eviction has
\* occurred, and an identity exceeds it only after it has been evicted.
C27_BoundWithoutEviction ==
  \A k \in Tokens : k \notin evictedEver => Len(granted[k]) <= maxReq

\* two identities, neither ever evicted, both at their quota, and the
\* latest check rejected
C27_Witness ==
  /\ evictedEver = {}
  /\ maxReq = MaxRequests
  /\ \A k \in Tokens : Len(granted[k]) = maxReq
  /\ last.op = "check"
  /\ last.result = "RateLimitExceeded"

\* position of the identity in the ledger
IndexOf(m, token) == CHOOSE i \in 1..Len(m) : m[i].token = token

\* C28: a successful check removes at most one identity.  With
\* uniqueTokenPerInterval >= 1 it never removes the caller, and the identity
\* it removes is the first in insertion order among those with the smallest
\* earliest timestamp; with uniqueTokenPerInterval = 0 it removes the
\* caller, so the ledger stays empty.
C28_CallerNotEvicted ==
  [][(last'.op = "check" /\ last'.result = "ok") =>
       LET ins == Inserted(tokenRequests, last'.token, now, interval)
           ev == last'.evicted
       IN /\ Cardinality(MapKeys(ins) \ MapKeys(tokenRequests')) <= 1
          /\ MapKeys(tokenRequests') \subseteq MapKeys(ins)
          /\ MapKeys(ins) \ MapKeys(tokenRequests') = {ev} \ {EmptyToken}
          /\ uniqueTokenPerInterval >= 1 =>
               /\ ev # last'.token
               /\ MapGet(tokenRequests', last'.token) = MapGet(ins, last'.token)
               /\ ev # EmptyToken =>
                    \A j \in 1..Len(ins) :
                      IF j < IndexOf(ins, ev)
                      THEN MathMin(ins[j].ts) > MathMin(MapGet(ins, ev))
                      ELSE MathMin(ins[j].ts) >= MathMin(MapGet(ins, ev))
          /\ uniqueTokenPerInterval = 0 =>
               /\ ev = last'.token
               /\ tokenRequests' = <<>>]_vars

\* a check has evicted the other identity, whose only timestamp was as old
\* as the caller's
C28_Witness ==
  /\ last.op = "check"
  /\ last.result = "ok"
  /\ uniqueTokenPerInterval >= 1
  /\ last.evicted \in Tokens \ {last.token}
  /\ granted[last.evicted] = <<now>>
  /\ MapGet(tokenRequests, last.token) = <<now>>

(***************************************************************************)
(* Properties of the order of the quota check and the request body.        *)
(***************************************************************************)
\* a request is being handled or has just been answered
InRequest == pc # "idle"

\* what holds of the request in hand: its identity is the header or
\* "anonymous"; rejected by the limiter it is answered 429 with the body
\* never read and no call made; admitted, its timestamp is recorded
QuotaState ==
  InRequest =>
    /\ last.op = "check"
    /\ last.token = (IF header = "" THEN "anonymous" ELSE header)
    /\ IF LimiterRejected
       THEN /\ pc = "done"
            /\ status = HTTP_STATUS.TOO_MANY_REQUESTS
            /\ error = RateLimitError
            /\ calls = <<>>
            /\ selectedModel = "none"
            /\ initialResponse = <<>>
       ELSE /\ last.result = "ok"
            /\ MapGet(tokenRequests, last.token) # <<>>
            /\ MapGet(tokenRequests, last.token)[Len(MapGet(tokenRequests, last.token))]
                 = now

\* the check records exactly one timestamp for an admitted request and none
\* for a rejected one, and no later step of the handler, whatever status it
\* answers with, changes the ledger
QuotaStep ==
  IF pc = "idle" /\ pc' # "idle"
  THEN IF last'.result = "ok"
       THEN /\ pc' = "json"
            /\ MapGet(tokenRequests', last'.token)
                 = Append(MapGet(tokenRequests, last'.token), now)
       ELSE tokenRequests' = tokenRequests
  ELSE tokenRequests' = tokenRequests

\* C29: every request the limiter admits has one unit of its identity's
\* quota recorded before its body is read, and keeps it whether it is later
\* answered 200, 400, 500 or 504; a request the limiter rejects is answered
\* 429 without its body being read and without any completion call; a
\* request without the x-forwarded-for header is checked as "anonymous".
C29_QuotaBeforeParsing == []QuotaState /\ [][QuotaStep]_vars

\* a request without the header and without a prompt, answered 400, has
\* used up the last unit of the quota of "anonymous"
C29_Witness ==
  /\ pc = "done"
  /\ header = ""
  /\ body.kind = "noPrompt"
  /\ status = HTTP_STATUS.BAD_REQUEST
  /\ Len(MapGet(tokenRequests, "anonymous"))
       = RATE_LIMIT_SETTINGS.MAX_REQUESTS_PER_INTERVAL

(***************************************************************************)
(* Shape of the ledger.                                                     *)
(***************************************************************************)
\* every tracked identity has a non-empty list in non-decreasing order, so
\* Math.min of the list is finite and is its first element
WellFormedLedger(m) ==
  \A i \in 1..Len(m) :
    /\ m[i].ts # <<>>
    /\ \A j \in 1..(Len(m[i].ts) - 1) : m[i].ts[j] <= m[i].ts[j + 1]
    /\ MathMin(m[i].ts) # Infinity
    /\ MathMin(m[i].ts) = m[i].ts[1]

\* C30: after every check and every sweep each tracked identity has a
\* non-empty timestamp list in non-decreasing order, and so has the ledger
\* enforceUniqueTokenLimit inspects inside a successful check; the earliest
\* timestamp it computes is finite and equal to the first element of the
\* list.
C30_NonEmptySorted ==
  /\ []WellFormedLedger(tokenRequests)
  /\ [][(last'.op = "check" /\ last'.result = "ok") =>
          WellFormedLedger(Inserted(tokenRequests, last'.token, now, interval))]_vars

\* after a sweep two identities are tracked, one with timestamps of two
\* different times, the other with a list the sweep has shortened
C30_Witness ==
  /\ last.op = "sweep"
  /\ Len(tokenRequests) = 2
  /\ \E i \in 1..Len(tokenRequests), j \in 1..Len(tokenRequests) :
       /\ Len(tokenRequests[i].ts) >= 2
       /\ tokenRequests[i].ts[1] < tokenRequests[i].ts[Len(tokenRequests[i].ts)]
       /\ Len(tokenRequests[j].ts) < Len(granted[tokenRequests[j].token])

====
